---- MODULE Spec2Model ----
(***************************************************************************)
(* State-reconciliation engine of the SoftLayer modules sl_vguests         *)
(* (class vGuests) and sl_hardware (class vHardware).                      *)
(*                                                                         *)
(* One behaviour is a series of module invocations ("passes") against one  *)
(* provider account.  The account is the variable world: the list of the   *)
(* provider's raw records.  Every remote call of the SoftLayer managers    *)
(* either raises (SoftLayerAPIError or another exception) or answers from  *)
(* world; create and cancel change world, with the provider free to make   *)
(* the change visible at once or not.                                      *)
(*                                                                         *)
(* Names are sequences of labels: "a.x" is <<"a","x">>, so that            *)
(* name.split('.',1) is computed and a name without a dot has no domain.   *)
(* Python's None is the empty sequence.                                    *)
(*                                                                         *)
(* FactsSpec is a second specification: get_fact applied once to one       *)
(* detailed record of the provider (variables rawInst and factResult).     *)
(* ConcurrentSpec is a third: the passes of Spec with another actor        *)
(* changing the account between a pass's query and its handler.            *)
(***************************************************************************)
EXTENDS Integers, Sequences, FiniteSets, TLC

\* The provider account holds at most MaxId resources, with ids 1..MaxId.
MaxId == 2

Ids == 1..MaxId

None == <<>>

ALL_STATES == {"list", "info", "facts", "running", "halted", "paused", "destroy"}

ALL_POWER_STATES == {"Running", "Halted", "Paused", "Undefined"}

\* powerState.name as the provider reports it for a virtual guest: never the
\* synthetic Undefined.  A bare-metal record carries no power state.
PowerStateNames(k) ==
    IF k = "vguests" THEN ALL_POWER_STATES \ {"Undefined"} ELSE {"NotReported"}

\* Fully qualified domain names of the provider's records.
FQDN == {<<"a", "x">>, <<"b", "x">>}

\* The identity parameters name, hostname, domain of one invocation.
Identities ==
    { [name |-> <<"a", "x">>, hostname |-> None, domain |-> None],
      [name |-> None,         hostname |-> None, domain |-> None],
      [name |-> None,         hostname |-> <<"b">>, domain |-> <<"x">>],
      [name |-> <<"host">>,   hostname |-> None, domain |-> None] }

RawRecords(k) ==
    [id : Ids, fullyQualifiedDomainName : FQDN, powerState : PowerStateNames(k)]

RECURSIVE DistinctIds(_)
DistinctIds(s) ==
    \/ Len(s) <= 1
    \/ /\ \A i \in 2..Len(s) : s[i].id # s[1].id
       /\ DistinctIds(Tail(s))

Worlds(k) ==
    { w \in UNION { [1..n -> RawRecords(k)] : n \in 0..MaxId } : DistinctIds(w) }

\* Exceptions a remote call can raise.
Raises == {"SoftLayerAPIError", "Exception"}

VARIABLES
    kind,        \* "vguests" (sl_vguests.py) or "hardware" (sl_hardware.py)
    params,      \* module.params of the running invocation
    world,       \* the provider's records
    pc,          \* position in main(): "begin", "readonly", "query", "loop", "exit", "done", "failed"
    results,     \* the results dictionary of main()
    items,       \* the list main() iterates over
    idx,         \* index in items of the next item main() handles
    calls,       \* remote calls issued by this pass, in order
    handlers,    \* handlers main() dispatched in this pass, in order
    outcome,     \* what exit_json / fail_json delivered to the caller
    prevRunning, \* the preceding pass requested running and exited successfully
    rawInst,     \* the detailed record get_fact is applied to
    factResult,  \* what get_fact returned or raised
    interfered   \* another actor changed a resource of the pass since its query

vars == <<kind, params, world, pc, results, items, idx, calls, handlers, outcome, prevRunning,
          rawInst, factResult, interfered>>

----------------------------------------------------------------------------
(* Python helpers *)

\* name.split('.',1)
split(name) ==
    IF Len(name) <= 1 THEN <<name>> ELSE <<SubSeq(name, 1, 1), Tail(name)>>

\* d[key] = value
SetKey(d, key, value) == (key :> value) @@ d

\* del d[key]
DelKey(d, key) == [k \in DOMAIN d \ {key} |-> d[k]]

\* A remote call as the calls log keeps it.  The query is logged as
\* list_instances and the detail fetch as get_instance for both modules
\* (list_hardware and get_hardware in sl_hardware.py).
Call(op, id, spec, ret) == [op |-> op, id |-> id, spec |-> spec, ret |-> ret]

----------------------------------------------------------------------------
(* The provider (SoftLayer managers) answering from world *)

list_instances(w, hostname, domain) ==
    SelectSeq(w, LAMBDA r :
        /\ hostname = None \/ SubSeq(r.fullyQualifiedDomainName, 1, 1) = hostname
        /\ domain = None \/ Tail(r.fullyQualifiedDomainName) = domain)

WorldIds(w) == {w[i].id : i \in 1..Len(w)}

\* Worlds after cancel_instance(id) / cancel_hardware(id) answered true: the
\* record is gone, or still listed while the teardown runs.
AfterCancel(w, id) == {w, SelectSeq(w, LAMBDA r : r.id # id)}

\* Worlds after create_instance / place_order answered with id newId: the
\* record is listed, or not yet (the order is still being provisioned).
AfterCreate(w, newId, name) ==
    {w} \cup { Append(w, [id |-> newId, fullyQualifiedDomainName |-> name, powerState |-> p])
               : p \in PowerStateNames(kind) }

----------------------------------------------------------------------------
(* TOOLS *)

\* Mutant of get_instance: the state is read from the record for bare-metal
\* servers too.
get_instance_ReadsPowerState(inst) ==
    [id    |-> inst.id,
     name  |-> inst.fullyQualifiedDomainName,
     state |-> inst.powerState,
     status |-> "Active"]

get_instance(inst) ==
    [id    |-> inst.id,
     name  |-> inst.fullyQualifiedDomainName,
     state |-> IF kind = "vguests" THEN inst.powerState ELSE "Running",
     status |-> "Active"]

\* for item in items: list_instances.append(self.get_instance(item))
Summaries(found) == [i \in 1..Len(found) |-> get_instance(found[i])]

\* The part of get_fact the driver reads: the identity of the fact record.
get_fact(inst) ==
    [id    |-> inst.id,
     name  |-> inst.fullyQualifiedDomainName,
     state |-> IF kind = "vguests" THEN inst.powerState ELSE "Running"]

----------------------------------------------------------------------------
(* get_fact in full, applied to the detailed record that get_instance(id)  *)
(* of VSManager / get_hardware(id) of HardwareManager returns.  A string   *)
(* that the code searches is held as the sequence of its words; a URI as a *)
(* one-element sequence, so that it compares with None.                    *)

\* Python's "word in text" on strings.
Contains(word, text) == \E k \in 1..Len(text) : text[k] = word

\* 'key' in inst.keys()
Has(d, key) == key \in DOMAIN d

\* A dictionary without keys.
Dict0 == [k \in {} |-> TRUE]

\* A record holds at most MaxDevices block devices.
MaxDevices == 2

\* What vdi.getObject(id=diskImageId) answers: name, units and capacity of
\* a disk image.
DiskImages ==
    { [name |-> n, units |-> u.units, capacity |-> u.capacity] :
        n \in {<<"Disk">>, <<"Linux", "SWAP">>},
        u \in { [units |-> <<"GB">>, capacity |-> 25],
                [units |-> <<"TB">>, capacity |-> 2] } }
    \cup { [name |-> <<"Disk">>, units |-> <<"MB">>, capacity |-> 512] }

\* A block device with the provider's answers for its disk image: disk is
\* vdi.getObject(id), localDiskFlag is vdi.getLocalDiskFlag(id).
BlockDevices ==
    { dev \in [disk : DiskImages, localDiskFlag : BOOLEAN] :
        dev.disk.units = <<"MB">> => ~dev.localDiskFlag }

NetworkVlans ==
    { <<>>,
      <<[networkSpace |-> "PRIVATE", vlanNumber |-> 100]>>,
      <<[networkSpace |-> "PUBLIC", vlanNumber |-> 200]>>,
      <<[networkSpace |-> "PRIVATE", vlanNumber |-> 100],
        [networkSpace |-> "PUBLIC", vlanNumber |-> 200]>> }

\* Network components; only the bare-metal ones carry primarySubnet.
NetworkComponents(k) ==
    IF k = "vguests"
    THEN { <<>>, <<[status |-> <<"ACTIVE">>, maxSpeed |-> 1000]>> }
    ELSE { <<>>,
           <<[status |-> <<"ACTIVE">>, maxSpeed |-> 1000]>>,
           <<[status |-> <<"ACTIVE">>, maxSpeed |-> 1000, primarySubnet |-> "10.0.0.0"]>> }

\* The fields get_fact reads unconditionally.
RequiredFields(k) ==
    IF k = "vguests"
    THEN [id |-> 1, fullyQualifiedDomainName |-> <<"a", "x">>,
          hostname |-> <<"a">>, domain |-> <<"x">>,
          datacenter |-> [name |-> "par01"],
          maxCpu |-> 1, maxMemory |-> 1024,
          powerState |-> [name |-> "Running"], status |-> [name |-> "Active"],
          operatingSystem |->
              [softwareLicense |-> [softwareDescription |-> [referenceCode |-> "UBUNTU_14_64"]]],
          dedicatedAccountHostOnlyFlag |-> FALSE,
          hourlyBillingFlag |-> TRUE, privateNetworkOnlyFlag |-> TRUE,
          tagReferences |-> <<[tag |-> [name |-> "mytag"]]>>]
    ELSE [id |-> 1, fullyQualifiedDomainName |-> <<"a", "x">>,
          hostname |-> <<"a">>, domain |-> <<"x">>,
          datacenter |-> [name |-> "par01"],
          processorPhysicalCoreAmount |-> 4, memoryCapacity |-> 8,
          operatingSystem |->
              [softwareLicense |-> [softwareDescription |-> [referenceCode |-> "UBUNTU_14_64"]]],
          hourlyBillingFlag |-> TRUE, privateNetworkOnlyFlag |-> TRUE,
          tagReferences |-> <<[tag |-> [name |-> "mytag"]]>>]

\* The key absent, or present with one of the values.
Optional(key, values) == {Dict0} \cup { key :> v : v \in values }

\* Detailed records of the provider: the required fields and any choice of
\* the optional ones, each absent, empty or filled.
RawDetails(k) ==
    { RequiredFields(k) @@ a @@ b @@ m @@ d @@ v @@ c @@ u @@ p :
        a \in Optional("primaryBackendIpAddress", {"10.0.0.1"}),
        b \in Optional("primaryIpAddress", {"192.0.2.1"}),
        m \in IF k = "vguests" THEN {Dict0}
               ELSE Optional("networkManagementIpAddress", {"10.0.0.2"}),
        d \in IF k = "vguests"
               THEN Optional("blockDevices",
                             UNION { [1..n -> BlockDevices] : n \in 0..MaxDevices })
               ELSE {Dict0},
        v \in Optional("networkVlans", NetworkVlans),
        c \in Optional("networkComponents", NetworkComponents(k)),
        u \in Optional("userData", {<<>>, <<[value |-> "userdata"]>>}),
        p \in Optional("postInstallScriptUri", {None, <<"https://example.org/post.sh">>}) }

\* get_fact returned info.
Returned(info) == [exc |-> "none", info |-> info]

\* inst[key] on a record without the key.
KeyError == [exc |-> "KeyError", info |-> Dict0]

NoFact == Returned(Dict0)

\* "Address value if defined" and "privateAddress value if defined"; the
\* management address is read by sl_hardware only.
Addresses(i, info) ==
    LET i1 == IF Has(i, "primaryBackendIpAddress")
              THEN SetKey(info, "address", i.primaryBackendIpAddress)
              ELSE IF Has(i, "primaryIpAddress")
              THEN SetKey(info, "address", i.primaryIpAddress)
              ELSE info
        i2 == IF kind = "hardware" /\ Has(i, "networkManagementIpAddress")
              THEN SetKey(i1, "managementAddress", i.networkManagementIpAddress)
              ELSE i1
        i3 == IF Has(i, "primaryBackendIpAddress")
              THEN SetKey(i2, "privateAddress", i.primaryBackendIpAddress)
              ELSE i2
    IN  IF Has(i, "primaryIpAddress")
        THEN SetKey(i3, "publicAddress", i.primaryIpAddress)
        ELSE i3

\* Mutant of Unit: terabytes are not scaled.
Unit_TBNotScaled(units) ==
    IF Contains("GB", units) \/ Contains("TB", units) THEN 1 ELSE 0

\* unit = 1 for GB, 1000 for TB, 0 otherwise
Unit(units) ==
    IF Contains("GB", units) THEN 1
    ELSE IF Contains("TB", units) THEN 1000
    ELSE 0

\* for blockDevice in inst['blockDevices'], with disks and local_disk as the
\* devices handled so far left them.
RECURSIVE DiskLoop(_, _, _)
DiskLoop(blockDevices, disks, local_disk) ==
    IF blockDevices = <<>>
    THEN [disks |-> disks, local_disk |-> local_disk]
    ELSE LET blockDevice == Head(blockDevices)
             disk == blockDevice.disk
         IN  IF ~Contains("SWAP", disk.name)
             THEN DiskLoop(Tail(blockDevices),
                           Append(disks, disk.capacity * Unit(disk.units)),
                           local_disk \/ blockDevice.localDiskFlag)
             ELSE DiskLoop(Tail(blockDevices), disks, local_disk)

\* for vlan in inst['networkVlans']
RECURSIVE VlanLoop(_, _)
VlanLoop(networkVlans, info) ==
    IF networkVlans = <<>>
    THEN info
    ELSE LET vlan == Head(networkVlans)
             i1 == IF vlan.networkSpace = "PRIVATE"
                   THEN SetKey(info, "private_vlan", vlan.vlanNumber) ELSE info
             i2 == IF vlan.networkSpace = "PUBLIC"
                   THEN SetKey(i1, "public_vlan", vlan.vlanNumber) ELSE i1
         IN  VlanLoop(Tail(networkVlans), i2)

\* for networkComponent in inst['networkComponents'] of sl_vguests: the
\* highest maxSpeed of the ACTIVE components.
RECURSIVE NicSpeed(_, _)
NicSpeed(networkComponents, nic_speed) ==
    IF networkComponents = <<>>
    THEN nic_speed
    ELSE LET networkComponent == Head(networkComponents)
         IN  NicSpeed(Tail(networkComponents),
                      IF /\ Contains("ACTIVE", networkComponent.status)
                         /\ nic_speed < networkComponent.maxSpeed
                      THEN networkComponent.maxSpeed ELSE nic_speed)

\* The same loop of sl_hardware: only a component with a primarySubnet is
\* looked at, and only then is info['nic_speed'] assigned.
RECURSIVE HardwareNicLoop(_, _, _)
HardwareNicLoop(networkComponents, nic_speed, info) ==
    IF networkComponents = <<>>
    THEN info
    ELSE LET networkComponent == Head(networkComponents)
         IN  IF Has(networkComponent, "primarySubnet")
             THEN LET speed == IF /\ Contains("ACTIVE", networkComponent.status)
                                  /\ nic_speed < networkComponent.maxSpeed
                               THEN networkComponent.maxSpeed ELSE nic_speed
                  IN  HardwareNicLoop(Tail(networkComponents), speed,
                                      SetKey(info, "nic_speed", speed))
             ELSE HardwareNicLoop(Tail(networkComponents), nic_speed, info)

\* "User Data" and "Post Install Script URI", the same in both modules.
UserDataAndPostUri(i, info) ==
    IF ~Has(i, "userData") THEN KeyError
    ELSE LET i1 == IF Len(i.userData) > 0
                   THEN SetKey(info, "userData", i.userData[1]) ELSE info
         IN  Returned(IF Has(i, "postInstallScriptUri") /\ i.postInstallScriptUri # None
                      THEN SetKey(i1, "post_uri", i.postInstallScriptUri)
                      ELSE i1)

vGuests_get_fact(i) ==
    LET info0 == [id        |-> i.id,
                  name      |-> i.fullyQualifiedDomainName,
                  hostname  |-> i.hostname,
                  domain    |-> i.domain,
                  datacenter |-> i.datacenter.name,
                  cpus      |-> i.maxCpu,
                  memory    |-> i.maxMemory,
                  state     |-> i.powerState.name,
                  status    |-> i.status.name,
                  os_code   |-> i.operatingSystem.softwareLicense.softwareDescription.referenceCode,
                  dedicated |-> i.dedicatedAccountHostOnlyFlag,
                  hourly    |-> i.hourlyBillingFlag,
                  private   |-> i.privateNetworkOnlyFlag,
                  tags      |-> [t \in 1..Len(i.tagReferences) |-> i.tagReferences[t].tag.name]]
        info1 == Addresses(i, info0)
    IN  IF ~Has(i, "blockDevices") THEN KeyError
        ELSE
        LET info2 == IF Len(i.blockDevices) > 0
                     THEN LET loop == DiskLoop(i.blockDevices, <<>>, FALSE)
                          IN  SetKey(SetKey(info1, "disks", loop.disks),
                                     "local_disk", loop.local_disk)
                     ELSE info1
        IN  IF ~Has(i, "networkVlans") THEN KeyError
            ELSE
            LET info3 == VlanLoop(i.networkVlans, info2)
            IN  IF ~Has(i, "networkComponents") THEN KeyError
                ELSE
                LET info4 == IF Len(i.networkComponents) > 0
                             THEN SetKey(info3, "nic_speed", NicSpeed(i.networkComponents, 0))
                             ELSE info3
                IN  UserDataAndPostUri(i, info4)

vHardware_get_fact(i) ==
    LET info0 == [id        |-> i.id,
                  name      |-> i.fullyQualifiedDomainName,
                  hostname  |-> i.hostname,
                  domain    |-> i.domain,
                  datacenter |-> i.datacenter.name,
                  state     |-> "Running",
                  status    |-> "Active",
                  cpus      |-> i.processorPhysicalCoreAmount,
                  memory    |-> i.memoryCapacity,
                  os_code   |-> i.operatingSystem.softwareLicense.softwareDescription.referenceCode,
                  hourly    |-> i.hourlyBillingFlag,
                  private   |-> i.privateNetworkOnlyFlag,
                  tags      |-> [t \in 1..Len(i.tagReferences) |-> i.tagReferences[t].tag.name],
                  address   |-> "undefined"]
        info1 == Addresses(i, info0)
    IN  IF ~Has(i, "networkVlans") THEN KeyError
        ELSE
        LET info2 == VlanLoop(i.networkVlans, info1)
        IN  IF ~Has(i, "networkComponents") THEN KeyError
            ELSE UserDataAndPostUri(i, HardwareNicLoop(i.networkComponents, 0, info2))

----------------------------------------------------------------------------
(* Flavors and billing parameters the caller can supply *)

VSI_DEFAULT ==
    [private |-> TRUE, dedicated |-> FALSE, hourly |-> TRUE, datacenter |-> "par01",
     cpus |-> "1", memory |-> "1024", nic_speed |-> "1000", local_disk |-> TRUE,
     disks |-> <<"25">>, os_code |-> "UBUNTU_14_64", tags |-> "mytag"]

BMS_DEFAULT ==
    [hourly |-> TRUE, private |-> TRUE, datacenter |-> "par01",
     size |-> "S1270_8GB_2X1TBSATA_NORAID", os_code |-> "UBUNTU_14_64",
     port_speed |-> "100", tags |-> "mytag"]

\* Flavors a playbook passes with flavor=...: the two built-in profiles, the
\* bare-metal profile without tags, with hourly false, and with only the keys
\* datacenter, size and os_code.
Flavors ==
    { VSI_DEFAULT,
      BMS_DEFAULT,
      [hourly |-> TRUE, private |-> TRUE, datacenter |-> "par01",
       size |-> "S1270_8GB_2X1TBSATA_NORAID", os_code |-> "UBUNTU_14_64"],
      [hourly |-> FALSE, private |-> FALSE, datacenter |-> "par01",
       size |-> "S1270_8GB_2X1TBSATA_NORAID", os_code |-> "UBUNTU_14_64"],
      [datacenter |-> "par01", size |-> "S1270_8GB_2X1TBSATA_NORAID",
       os_code |-> "UBUNTU_14_64"] }

\* hourly and monthly after the argument defaults (hourly 'yes', monthly
\* 'no') are applied; the caller may not supply both.
BillingParams ==
    { [hourly |-> "yes", monthly |-> "no"],
      [hourly |-> "no",  monthly |-> "no"],
      [hourly |-> "yes", monthly |-> "yes"] }

\* module.boolean(arg)
boolean(arg) == arg \in {"yes", "on", "1", "true"}

SSHKEY_LABEL == "Frederic PERREAU"

\* SshKeyManager._get_ids_from_label(label)
get_ids_from_label(label) == <<label>>

----------------------------------------------------------------------------
(* The results dictionary, exit_json and fail_json *)

Blank ==
    [keys |-> {}, changed |-> FALSE, state |-> "", instances |-> <<>>,
     ansible_facts |-> <<>>, msg |-> "", debug_bms |-> <<>>, debug_inst |-> 0]

\* results = { 'changed':False, 'state':state, 'instances':[] }
NewResults(st) ==
    [Blank EXCEPT !.keys = {"changed", "state", "instances"}, !.state = st]

MsgOnly(m) == [Blank EXCEPT !.keys = {"msg"}, !.msg = m]

exit_json(kwargs) == [status |-> "exit", data |-> kwargs]

fail_json(kwargs) ==
    [status |-> "failed", data |-> [kwargs EXCEPT !.keys = @ \cup {"failed"}]]

NoOutcome == [status |-> "none", data |-> Blank]

\* The except clauses of main(), and SystemExit raised by a fail_json call
\* inside a handler, which no except clause catches.
HardwareExcept(exc, msg, res) ==
    IF exc = "SystemExit" THEN fail_json(MsgOnly(msg))
    ELSE IF exc = "SoftLayerAPIError" THEN fail_json(MsgOnly("exception SoftLayer API"))
    ELSE fail_json([res EXCEPT !.keys = @ \cup {"msg"}, !.msg = "exception"])

VGuestsExcept(exc, msg, res) ==
    IF exc = "SystemExit" THEN fail_json(MsgOnly(msg))
    ELSE IF exc = "SoftLayerAPIError" THEN fail_json(MsgOnly("exception SoftLayer API"))
    ELSE fail_json(MsgOnly("exception"))

Except(exc, msg, res) ==
    IF kind = "vguests" THEN VGuestsExcept(exc, msg, res) ELSE HardwareExcept(exc, msg, res)

\* What a handler did: the exception it raised ("none" when it returned),
\* the results dictionary, the provider's records and the calls it issued.
Eff(exc, msg, res, w, cs) ==
    [exc |-> exc, msg |-> msg, results |-> res, world |-> w, calls |-> cs]

----------------------------------------------------------------------------
(* state() and the handlers.  Each is the set of its possible effects on   *)
(* the results dictionary res and the provider's records w.                *)

\* state(name,id,results): the records matching the identity, summarized.
\* A name without a dot raises IndexError before any call is issued; the
\* remote call can raise, and get_instance raises KeyError on a record that
\* lacks a field it reads.
state(name, w) ==
    IF name # None /\ Len(split(name)) < 2
    THEN {[exc |-> "Exception", list |-> <<>>, calls |-> <<>>]}
    ELSE LET hostname == IF name # None THEN split(name)[1] ELSE params.hostname
             domain   == IF name # None THEN split(name)[2] ELSE params.domain
             answer   == list_instances(w, hostname, domain)
         IN  {[exc |-> e, list |-> <<>>,
               calls |-> <<Call("list_instances", 0, <<>>, e)>>] : e \in Raises}
             \cup
             {[exc |-> "none", list |-> Summaries(answer),
               calls |-> <<Call("list_instances", 0, <<>>, "ok")>>]}

\* Mutant of AppendAll: the records found replace the list instead of
\* being appended to it.
AppendAll_Assigns(res, found) == [res EXCEPT !.instances = found]

\* for item in self.state(name,id,results): results['instances'].append(item)
AppendAll(res, found) == [res EXCEPT !.instances = @ \o found]

nop(name, id, res, w) ==
    { Eff(s.exc, "",
          IF s.exc = "none" THEN AppendAll(res, s.list) ELSE res,
          w, s.calls) : s \in state(name, w) }

start(name, id, res, w) == nop(name, id, res, w)

\* Mutant of stop: the handler powers the resource off before it re-queries,
\* and sets changed.
stop_PowersOff(name, id, res, w) ==
    { Eff(s.exc, "",
          IF s.exc = "none" THEN AppendAll([res EXCEPT !.changed = TRUE], s.list) ELSE res,
          w, <<Call("power_off", id, <<>>, "True")>> \o s.calls) : s \in state(name, w) }

stop(name, id, res, w) == nop(name, id, res, w)

suspend(name, id, res, w) == nop(name, id, res, w)

resume(name, id, res, w) == nop(name, id, res, w)

\* wait_for_ready(id, wait) of sl_vguests: returns or raises.
WaitForReady(id) ==
    {[exc |-> e, calls |-> <<Call("wait_for_ready", id, <<>>, e)>>] : e \in Raises \cup {"none"}}

\* Mutant of CancelSetsChanged: changed is set whatever cancel answered.
CancelSetsChanged_Always(res, acknowledged) == [res EXCEPT !.changed = TRUE]

CancelSetsChanged(res, acknowledged) ==
    IF acknowledged THEN [res EXCEPT !.changed = TRUE] ELSE res

destroy(name, id, res, w) ==
    LET cancelOp == IF kind = "vguests" THEN "cancel_instance" ELSE "cancel_hardware"
        Requery(res2, w2, cs) ==
            { Eff(s.exc, "",
                  IF s.exc = "none" THEN AppendAll(res2, s.list) ELSE res2,
                  w2, cs \o s.calls) : s \in state(name, w2) }
        AfterAnswer(b, w2) ==
            LET res2 == CancelSetsChanged(res, b)
                cs   == <<Call(cancelOp, id, <<>>, IF b THEN "True" ELSE "False")>>
            IN  IF kind = "vguests"
                THEN UNION { IF wr.exc = "none"
                             THEN Requery(res2, w2, cs \o wr.calls)
                             ELSE {Eff(wr.exc, "", res2, w2, cs \o wr.calls)}
                             : wr \in WaitForReady(id) }
                ELSE Requery(res2, w2, cs)
    IN  { Eff(e, "", res, w, <<Call(cancelOp, id, <<>>, e)>>) : e \in Raises }
        \cup AfterAnswer(FALSE, w)
        \cup UNION { AfterAnswer(TRUE, w2) : w2 \in AfterCancel(w, id) }

\* The billing override of create: monthly forces hourly false, then hourly
\* forces hourly true.
BillingOverride(flavor, billing) ==
    LET hourly  == boolean(billing.hourly)
        monthly == boolean(billing.monthly)
        f1 == IF monthly THEN SetKey(flavor, "hourly", FALSE) ELSE flavor
    IN  IF hourly THEN SetKey(f1, "hourly", TRUE) ELSE f1

\* hostname, domain and ssh_keys added to the flavor.
WithIdentity(flavor, name) ==
    SetKey(SetKey(SetKey(flavor, "hostname", split(name)[1]),
                  "domain", split(name)[2]),
           "ssh_keys", get_ids_from_label(SSHKEY_LABEL))

\* "Transcodage Hardware vs vGuest" of vHardware.create.
Transcode(bms) ==
    LET b1 == DelKey(SetKey(bms, "os", bms.os_code), "os_code")
        b2 == DelKey(SetKey(b1, "location", b1.datacenter), "datacenter")
    IN  DelKey(SetKey(b2, "no_public", b2.private), "private")

TranscodeKeys == {"os_code", "datacenter", "private"}

\* results['changed'] = True at the end of create.
CreateSetsChanged(res) == [res EXCEPT !.changed = TRUE]

\* Mutant of NameMissing: create goes on without a name.
NameMissing_Never(name) == FALSE

\* if name is None: self.module.fail_json(msg="vguest name need to be defined.")
NameMissing(name) == name = None

vGuests_create(name, id, res, w, flavor, billing) ==
    IF NameMissing(name)
    THEN {Eff("SystemExit", "vguest name need to be defined.", res, w, <<>>)}
    ELSE IF Len(split(name)) < 2
    THEN {Eff("Exception", "", res, w, <<>>)}
    ELSE
    LET vsi == WithIdentity(BillingOverride(flavor, billing), name)
        verifyOk == <<Call("verify_create_instance", 0, vsi, "ok")>>
        Requery(newId, w2, cs) ==
            { Eff(s.exc, "",
                  IF s.exc = "none"
                  THEN [CreateSetsChanged(res) EXCEPT !.instances = s.list]
                  ELSE CreateSetsChanged(res),
                  w2, cs \o s.calls) : s \in state(name, w2) }
        Created(newId, w2) ==
            LET cs == verifyOk \o <<Call("create_instance", newId, vsi, "ok")>>
            IN  UNION { IF wr.exc = "none"
                        THEN Requery(newId, w2, cs \o wr.calls)
                        ELSE {Eff(wr.exc, "", res, w2, cs \o wr.calls)}
                        : wr \in WaitForReady(newId) }
    IN  { Eff(e, "", res, w, <<Call("verify_create_instance", 0, vsi, e)>>) : e \in Raises }
        \cup { Eff(e, "", res, w, verifyOk \o <<Call("create_instance", 0, vsi, e)>>)
               : e \in Raises }
        \cup UNION { UNION { Created(newId, w2) : w2 \in AfterCreate(w, newId, name) }
                     : newId \in Ids \ WorldIds(w) }

vHardware_create(name, id, res, w, flavor, billing) ==
    IF NameMissing(name)
    THEN {Eff("SystemExit", "vguest name need to be defined.", res, w, <<>>)}
    ELSE IF Len(split(name)) < 2
    THEN {Eff("Exception", "", res, w, <<>>)}
    ELSE
    LET bms0     == BillingOverride(flavor, billing)
        \* bms_tags, held as a one-element sequence so that it compares with None
        bms_tags == IF "tags" \in DOMAIN bms0 THEN <<bms0.tags>> ELSE None
        bms1     == IF "tags" \in DOMAIN bms0 THEN DelKey(bms0, "tags") ELSE bms0
        bms2     == WithIdentity(bms1, name)
    IN  IF ~(TranscodeKeys \subseteq DOMAIN bms2)
        THEN {Eff("Exception", "", res, w, <<>>)}          \* KeyError
        ELSE
        LET bms  == Transcode(bms2)
            res1 == [res EXCEPT !.keys = @ \cup {"debug_bms"}, !.debug_bms = bms]
            verifyOk == <<Call("verify_order", 0, bms, "ok")>>
            Placed(newId, w2) ==
                LET cs   == verifyOk \o <<Call("place_order", newId, bms, "ok")>>
                    res2 == [res1 EXCEPT !.keys = @ \cup {"debug_inst"}, !.debug_inst = newId]
                IN  { IF s.exc # "none"
                      THEN Eff(s.exc, "", res2, w2, cs \o s.calls)
                      ELSE IF bms_tags # None
                      \* state_inst['id'] on a list: TypeError, before hw.edit is called
                      THEN Eff("Exception", "", res2, w2, cs \o s.calls)
                      ELSE Eff("none", "",
                               [CreateSetsChanged(res2) EXCEPT !.instances = s.list],
                               w2, cs \o s.calls)
                      : s \in state(name, w2) }
        IN  { Eff(e, "", res1, w, <<Call("verify_order", 0, bms, e)>>) : e \in Raises }
            \cup { Eff(e, "", res1, w, verifyOk \o <<Call("place_order", 0, bms, e)>>)
                   : e \in Raises }
            \cup UNION { UNION { Placed(newId, w2) : w2 \in AfterCreate(w, newId, name) }
                         : newId \in Ids \ WorldIds(w) }

\* Mutant of create: the order is placed without the verify call.
create_SkipsVerify(name, id, res, w, flavor, billing) ==
    { [e EXCEPT !.calls = SelectSeq(e.calls, LAMBDA c :
                              c.op \notin {"verify_create_instance", "verify_order"})]
      : e \in IF kind = "vguests"
              THEN vGuests_create(name, id, res, w, flavor, billing)
              ELSE vHardware_create(name, id, res, w, flavor, billing) }

create(name, id, res, w, flavor, billing) ==
    IF kind = "vguests"
    THEN vGuests_create(name, id, res, w, flavor, billing)
    ELSE vHardware_create(name, id, res, w, flavor, billing)

----------------------------------------------------------------------------
(* Read-only handlers *)

NotFound == IF kind = "vguests" THEN "vguest not found" ELSE "vHardware not found"

Duplicated == IF kind = "vguests" THEN "duplicated vguests name" ELSE "duplicated vHardware name"

\* Mutant of list: an empty answer is a failure.
list_FailsWhenEmpty(name, id, res, w) ==
    { IF s.exc # "none"
      THEN Eff(s.exc, "", res, w, s.calls)
      ELSE IF Len(s.list) = 0
      THEN Eff("SystemExit", NotFound, res, w, s.calls)
      ELSE Eff("none", "", [res EXCEPT !.keys = @ \cup {"instances"}, !.instances = s.list],
               w, s.calls)
      : s \in state(name, w) }

list(name, id, res, w) ==
    { IF s.exc # "none"
      THEN Eff(s.exc, "", res, w, s.calls)
      ELSE LET res1 == IF Len(s.list) = 0
                       THEN [res EXCEPT !.keys = @ \cup {"msg"}, !.msg = NotFound]
                       ELSE res
           IN  Eff("none", "", [res1 EXCEPT !.keys = @ \cup {"instances"}, !.instances = s.list],
                   w, s.calls)
      : s \in state(name, w) }

\* Detail fetches vs.get_instance(id) / hw.get_hardware(id) for the first n
\* of the ids, in order, all answered.
DetailCalls(ids, n) ==
    [i \in 1..n |-> Call("get_instance", ids[i], <<>>, "ok")]

\* The record the provider holds for id.
Detail(w, id) == CHOOSE r \in {w[i] : i \in 1..Len(w)} : r.id = id

info(name, id, res, w) ==
    UNION {
      IF s.exc # "none"
      THEN {Eff(s.exc, "", res, w, s.calls)}
      ELSE LET ids == [i \in 1..Len(s.list) |-> s.list[i].id]
               details == [i \in 1..Len(ids) |-> Detail(w, ids[i])]
               res1 == IF Len(details) = 0
                       THEN [res EXCEPT !.keys = @ \cup {"msg"}, !.msg = NotFound]
                       ELSE res
           IN  { Eff(e, "", res, w,
                     s.calls \o DetailCalls(ids, k - 1) \o <<Call("get_instance", ids[k], <<>>, e)>>)
                 : <<k, e>> \in (1..Len(ids)) \X Raises }
               \cup
               { Eff("none", "",
                     [res1 EXCEPT !.keys = @ \cup {"instances"}, !.instances = details],
                     w, s.calls \o DetailCalls(ids, Len(ids))) }
      : s \in state(name, w) }

\* Mutant of HasDuplicateName: a later fact of the same name is merged over
\* the earlier one.
HasDuplicateName_Never(list_facts) == FALSE

\* Whether two facts of the list carry the same name: the else branch of
\* "if name not in ansible_facts.keys()".
HasDuplicateName(list_facts) ==
    \E i, j \in 1..Len(list_facts) : i < j /\ list_facts[i].name = list_facts[j].name

\* ansible_facts[name] = fact for every fact of the list.
FactsByName(list_facts) ==
    [n \in {list_facts[i].name : i \in 1..Len(list_facts)} |->
        list_facts[CHOOSE i \in 1..Len(list_facts) : list_facts[i].name = n]]

\* Mutant of DelInstances: facts keeps the instances key.
DelInstances_Keeps(res) == res

\* del results['instances']
DelInstances(res) == [res EXCEPT !.keys = @ \ {"instances"}, !.instances = <<>>]

facts(name, id, res, w) ==
    LET res0 == DelInstances(res)
    IN  IF name # None /\ Len(split(name)) < 2
        THEN {Eff("Exception", "", res0, w, <<>>)}
        ELSE
        LET hostname == IF name # None THEN split(name)[1] ELSE params.hostname
            domain   == IF name # None THEN split(name)[2] ELSE params.domain
            answer   == list_instances(w, hostname, domain)
            ids      == [i \in 1..Len(answer) |-> answer[i].id]
            queryOk  == <<Call("list_instances", 0, <<>>, "ok")>>
            list_facts == [i \in 1..Len(ids) |-> get_fact(Detail(w, ids[i]))]
            cs       == queryOk \o DetailCalls(ids, Len(ids))
        IN  { Eff(e, "", res0, w, <<Call("list_instances", 0, <<>>, e)>>) : e \in Raises }
            \cup
            { Eff(e, "", res0, w,
                  queryOk \o DetailCalls(ids, k - 1) \o <<Call("get_instance", ids[k], <<>>, e)>>)
              : <<k, e>> \in (1..Len(ids)) \X Raises }
            \cup
            { IF Len(list_facts) = 0
              THEN Eff("none", "", [res0 EXCEPT !.keys = @ \cup {"msg"}, !.msg = NotFound], w, cs)
              ELSE IF HasDuplicateName(list_facts)
              THEN Eff("SystemExit", Duplicated, res0, w, cs)
              ELSE Eff("none", "",
                       [res0 EXCEPT !.keys = @ \cup {"ansible_facts"},
                                    !.ansible_facts = FactsByName(list_facts)],
                       w, cs) }

----------------------------------------------------------------------------
(* main() *)

\* Mutant of FINITE_STATE: the handlers of the Halted row are those of the
\* Paused row.
FINITE_STATE_RowsSwapped ==
    [Undefined |-> [running |-> "create"],
     Running   |-> [paused |-> "suspend", halted |-> "stop", destroy |-> "destroy",
                    running |-> "nop"],
     Halted    |-> [running |-> "resume", destroy |-> "destroy", halted |-> "nop"],
     Paused    |-> [running |-> "start", destroy |-> "destroy", paused |-> "nop"]]
    @@ ("_NONE_" :> [list |-> "list", info |-> "info", facts |-> "facts"])

\* Mutant of FINITE_STATE: the Undefined row routes destroy to the destroy
\* handler.
FINITE_STATE_UndefinedDestroy ==
    [Undefined |-> [running |-> "create", destroy |-> "destroy"],
     Running   |-> [paused |-> "suspend", halted |-> "stop", destroy |-> "destroy",
                    running |-> "nop"],
     Halted    |-> [running |-> "start", destroy |-> "destroy", halted |-> "nop"],
     Paused    |-> [running |-> "resume", destroy |-> "destroy", paused |-> "nop"]]
    @@ ("_NONE_" :> [list |-> "list", info |-> "info", facts |-> "facts"])

\* Mutant of FINITE_STATE: a Running resource asked to run is created again.
FINITE_STATE_RunningCreates ==
    [Undefined |-> [running |-> "create"],
     Running   |-> [paused |-> "suspend", halted |-> "stop", destroy |-> "destroy",
                    running |-> "create"],
     Halted    |-> [running |-> "start", destroy |-> "destroy", halted |-> "nop"],
     Paused    |-> [running |-> "resume", destroy |-> "destroy", paused |-> "nop"]]
    @@ ("_NONE_" :> [list |-> "list", info |-> "info", facts |-> "facts"])

\* Mutant of FINITE_STATE: list is looked up per resource, in the row of
\* the resource's observed state.
FINITE_STATE_ListByState ==
    [Undefined |-> [running |-> "create", list |-> "list"],
     Running   |-> [paused |-> "suspend", halted |-> "stop", destroy |-> "destroy",
                    running |-> "nop", list |-> "list"],
     Halted    |-> [running |-> "start", destroy |-> "destroy", halted |-> "nop",
                    list |-> "list"],
     Paused    |-> [running |-> "resume", destroy |-> "destroy", paused |-> "nop",
                    list |-> "list"]]
    @@ ("_NONE_" :> [info |-> "info", facts |-> "facts"])

FINITE_STATE ==
    [Undefined |-> [running |-> "create"],
     Running   |-> [paused |-> "suspend", halted |-> "stop", destroy |-> "destroy",
                    running |-> "nop"],
     Halted    |-> [running |-> "start", destroy |-> "destroy", halted |-> "nop"],
     Paused    |-> [running |-> "resume", destroy |-> "destroy", paused |-> "nop"]]
    @@ ("_NONE_" :> [list |-> "list", info |-> "info", facts |-> "facts"])

\* Whether FINITE_STATE[observed][requested] raises no KeyError.
HasHandler(observed, requested) ==
    /\ observed \in DOMAIN FINITE_STATE
    /\ requested \in DOMAIN FINITE_STATE[observed]

\* Mutant of Placeholder: the synthetic item is held as Running.
Placeholder_Running(name) == [state |-> "Running", name |-> name, id |-> 0]

\* items = [{ 'state':'Undefined', 'name':name, 'id':0 }]
Placeholder(name) == [state |-> "Undefined", name |-> name, id |-> 0]

NewParams(st, identity) ==
    [state |-> st, name |-> identity.name, hostname |-> identity.hostname,
     domain |-> identity.domain, flavor |-> <<>>, hourly |-> "", monthly |-> ""]

Init ==
    /\ kind \in {"vguests", "hardware"}
    /\ params \in {NewParams(st, identity) : st \in ALL_STATES, identity \in Identities}
    /\ world \in Worlds(kind)
    /\ pc = "begin"
    /\ results = Blank
    /\ items = <<>>
    /\ idx = 1
    /\ calls = <<>>
    /\ handlers = <<>>
    /\ outcome = NoOutcome
    /\ prevRunning = FALSE
    /\ rawInst = None
    /\ factResult = NoFact
    /\ interfered = FALSE

\* Mutant of Abort: an exception raised for a match that is not the last one
\* is swallowed and the loop goes on.
Abort_Continues(exc, msg, res) ==
    /\ pc' = IF pc = "loop" /\ idx < Len(items) THEN "loop" ELSE "failed"
    /\ results' = res
    /\ outcome' = IF pc = "loop" /\ idx < Len(items) THEN outcome ELSE Except(exc, msg, res)

\* An exception leaves main() through its except clauses (or, for
\* SystemExit, past them): the pass ends in fail_json.
Abort(exc, msg, res) ==
    /\ pc' = "failed"
    /\ results' = res
    /\ outcome' = Except(exc, msg, res)

\* Lines 297-307: the results dictionary and the SoftLayer client, managers
\* and ssh key ids.
MainBegin ==
    /\ pc = "begin"
    /\ \E e \in Raises \cup {"none"} :
          /\ calls' = <<Call("create_client_from_env", 0, <<>>, IF e = "none" THEN "ok" ELSE e)>>
          /\ IF e = "none"
             THEN /\ results' = NewResults(params.state)
                  /\ pc' = IF params.state \in DOMAIN FINITE_STATE["_NONE_"]
                           THEN "readonly" ELSE "query"
                  /\ UNCHANGED outcome
             ELSE Abort(e, "", NewResults(params.state))
    /\ UNCHANGED <<kind, params, world, items, idx, handlers, prevRunning, rawInst, factResult, interfered>>

\* FINITE_STATE['_NONE_'][state](name,0,results)
ReadOnly(h, effects) ==
    /\ pc = "readonly"
    /\ FINITE_STATE["_NONE_"][params.state] = h
    /\ handlers' = Append(handlers, [handler |-> h, name |-> params.name, id |-> 0])
    /\ \E eff \in effects :
          /\ world' = eff.world
          /\ calls' = calls \o eff.calls
          /\ IF eff.exc = "none"
             THEN /\ results' = eff.results
                  /\ pc' = "exit"
                  /\ UNCHANGED outcome
             ELSE Abort(eff.exc, eff.msg, eff.results)
    /\ UNCHANGED <<kind, params, items, idx, prevRunning, rawInst, factResult, interfered>>

List == ReadOnly("list", list(params.name, 0, results, world))

Info == ReadOnly("info", info(params.name, 0, results, world))

Facts == ReadOnly("facts", facts(params.name, 0, results, world))

\* Mutant of ItemsOf: the matches are handled last first.
ItemsOf_Reversed(found, name) ==
    IF Len(found) = 0 THEN <<Placeholder(name)>>
    ELSE [i \in 1..Len(found) |-> found[Len(found) + 1 - i]]

\* Mutant of ItemsOf: the placeholder is added whatever the query returned.
ItemsOf_AlwaysPlaceholder(found, name) == Append(found, Placeholder(name))

\* items = self.state(name,0,results), or the placeholder when it is empty.
ItemsOf(found, name) ==
    IF Len(found) = 0 THEN <<Placeholder(name)>> ELSE found

\* Lines 312-314: the initial query and the Undefined placeholder.
MainQuery ==
    /\ pc = "query"
    /\ \E s \in state(params.name, world) :
          /\ calls' = calls \o s.calls
          /\ IF s.exc = "none"
             THEN /\ items' = ItemsOf(s.list, params.name)
                  /\ idx' = 1
                  /\ pc' = "loop"
                  /\ UNCHANGED <<results, outcome>>
             ELSE /\ Abort(s.exc, "", results)
                  /\ UNCHANGED <<items, idx>>
    /\ UNCHANGED <<kind, params, world, handlers, prevRunning, rawInst, factResult, interfered>>

\* The handler FINITE_STATE selects for the item the loop is at.
Selected ==
    FINITE_STATE[items[idx].state][params.state]

\* One turn of "for item in items": the selected handler h runs with the
\* item's name and id.
Dispatch(h, effects) ==
    /\ pc = "loop"
    /\ idx <= Len(items)
    /\ HasHandler(items[idx].state, params.state)
    /\ Selected = h
    /\ handlers' = Append(handlers, [handler |-> h, name |-> items[idx].name, id |-> items[idx].id])
    /\ \E eff \in effects :
          /\ world' = eff.world
          /\ calls' = calls \o eff.calls
          /\ IF eff.exc = "none"
             THEN /\ results' = eff.results
                  /\ idx' = idx + 1
                  /\ pc' = IF idx = Len(items) THEN "exit" ELSE "loop"
                  /\ UNCHANGED outcome
             ELSE /\ Abort(eff.exc, eff.msg, eff.results)
                  /\ UNCHANGED idx
    /\ UNCHANGED <<kind, items, prevRunning, rawInst, factResult, interfered>>

Create ==
    \E flavor \in Flavors, billing \in BillingParams :
       /\ Dispatch("create", create(items[idx].name, items[idx].id, results, world, flavor, billing))
       /\ params' = [params EXCEPT !.flavor = flavor, !.hourly = billing.hourly,
                                   !.monthly = billing.monthly]

Destroy ==
    /\ Dispatch("destroy", destroy(items[idx].name, items[idx].id, results, world))
    /\ UNCHANGED params

Start ==
    /\ Dispatch("start", start(items[idx].name, items[idx].id, results, world))
    /\ UNCHANGED params

Stop ==
    /\ Dispatch("stop", stop(items[idx].name, items[idx].id, results, world))
    /\ UNCHANGED params

Suspend ==
    /\ Dispatch("suspend", suspend(items[idx].name, items[idx].id, results, world))
    /\ UNCHANGED params

Resume ==
    /\ Dispatch("resume", resume(items[idx].name, items[idx].id, results, world))
    /\ UNCHANGED params

Nop ==
    /\ Dispatch("nop", nop(items[idx].name, items[idx].id, results, world))
    /\ UNCHANGED params

\* FINITE_STATE[item['state']][state] raises KeyError: no handler runs.
NoSuchTransition ==
    /\ pc = "loop"
    /\ idx <= Len(items)
    /\ ~HasHandler(items[idx].state, params.state)
    /\ Abort("Exception", "", results)
    /\ UNCHANGED <<kind, params, world, items, idx, calls, handlers, prevRunning, rawInst, factResult, interfered>>

\* Line 327: self.module.exit_json(**results)
MainExit ==
    /\ pc = "exit"
    /\ pc' = "done"
    /\ outcome' = exit_json(results)
    /\ UNCHANGED <<kind, params, world, results, items, idx, calls, handlers, prevRunning, rawInst, factResult, interfered>>

\* The playbook invokes the module again, for the same identity, against
\* the provider as the last pass left it.
Again ==
    /\ pc \in {"done", "failed"}
    /\ \E st \in ALL_STATES :
          params' = NewParams(st, [name |-> params.name, hostname |-> params.hostname,
                                   domain |-> params.domain])
    /\ prevRunning' = (params.state = "running")
    /\ pc' = "begin"
    /\ results' = Blank
    /\ items' = <<>>
    /\ idx' = 1
    /\ calls' = <<>>
    /\ handlers' = <<>>
    /\ outcome' = NoOutcome
    /\ interfered' = FALSE
    /\ UNCHANGED <<kind, world, rawInst, factResult>>

Next ==
    \/ MainBegin
    \/ List
    \/ Info
    \/ Facts
    \/ MainQuery
    \/ Create
    \/ Destroy
    \/ Start
    \/ Stop
    \/ Suspend
    \/ Resume
    \/ Nop
    \/ NoSuchTransition
    \/ MainExit
    \/ Again

Spec == Init /\ [][Next]_vars

----------------------------------------------------------------------------
(* The module run while another actor (a second run of the module, an     *)
(* operator at the provider's portal) works on the same account.  The     *)
(* other actor acts between the initial query of a pass and the handler   *)
(* for the match the loop is at, at most once per pass.                   *)

\* The other actor may act: the pass has queried and is about to dispatch.
BeforeAction ==
    /\ pc = "loop"
    /\ idx <= Len(items)
    /\ ~interfered

\* Another run of the module, which found the same name absent, has its
\* create_instance / place_order completed.
OtherCreates ==
    /\ BeforeAction
    /\ Len(items[idx].name) = 2
    /\ \E newId \in Ids \ WorldIds(world), p \in PowerStateNames(kind) :
          world' = Append(world, [id |-> newId,
                                  fullyQualifiedDomainName |-> items[idx].name,
                                  powerState |-> p])
    /\ interfered' = TRUE
    /\ UNCHANGED <<kind, params, pc, results, items, idx, calls, handlers, outcome,
                   prevRunning, rawInst, factResult>>

\* The other actor has the matched resource cancelled.
OtherDestroys ==
    /\ BeforeAction
    /\ items[idx].id \in WorldIds(world)
    /\ world' = SelectSeq(world, LAMBDA r : r.id # items[idx].id)
    /\ interfered' = TRUE
    /\ UNCHANGED <<kind, params, pc, results, items, idx, calls, handlers, outcome,
                   prevRunning, rawInst, factResult>>

\* The other actor powers the matched guest on or off, or pauses it.
OtherChangesState ==
    /\ BeforeAction
    /\ \E i \in 1..Len(world), p \in PowerStateNames(kind) :
          /\ world[i].id = items[idx].id
          /\ world[i].powerState # p
          /\ world' = [world EXCEPT ![i].powerState = p]
    /\ interfered' = TRUE
    /\ UNCHANGED <<kind, params, pc, results, items, idx, calls, handlers, outcome,
                   prevRunning, rawInst, factResult>>

ConcurrentNext ==
    \/ MainBegin
    \/ List
    \/ Info
    \/ Facts
    \/ MainQuery
    \/ Create
    \/ Destroy
    \/ Start
    \/ Stop
    \/ Suspend
    \/ Resume
    \/ Nop
    \/ NoSuchTransition
    \/ MainExit
    \/ Again
    \/ OtherCreates
    \/ OtherDestroys
    \/ OtherChangesState

ConcurrentSpec == Init /\ [][ConcurrentNext]_vars

----------------------------------------------------------------------------
(* get_fact on its own: one detailed record, one application *)

FactsInit ==
    /\ kind \in {"vguests", "hardware"}
    /\ rawInst \in RawDetails(kind)
    /\ factResult = NoFact
    /\ interfered = FALSE
    /\ pc = "get_fact"
    /\ params = NewParams("facts", [name |-> <<"a", "x">>, hostname |-> None, domain |-> None])
    /\ world = <<>>
    /\ results = Blank
    /\ items = <<>>
    /\ idx = 1
    /\ calls = <<>>
    /\ handlers = <<>>
    /\ outcome = NoOutcome
    /\ prevRunning = FALSE

VGuestsGetFact ==
    /\ pc = "get_fact"
    /\ kind = "vguests"
    /\ factResult' = vGuests_get_fact(rawInst)
    /\ pc' = "return"
    /\ UNCHANGED <<kind, params, world, results, items, idx, calls, handlers, outcome,
                   prevRunning, rawInst, interfered>>

HardwareGetFact ==
    /\ pc = "get_fact"
    /\ kind = "hardware"
    /\ factResult' = vHardware_get_fact(rawInst)
    /\ pc' = "return"
    /\ UNCHANGED <<kind, params, world, results, items, idx, calls, handlers, outcome,
                   prevRunning, rawInst, interfered>>

FactsNext ==
    \/ VGuestsGetFact
    \/ HardwareGetFact

FactsSpec == FactsInit /\ [][FactsNext]_vars

----------------------------------------------------------------------------
(* Vocabulary of the claims *)

READ_ONLY == {"list", "info", "facts"}

StateChanging == params.state \notin READ_ONLY

\* The pass has ended: exit_json or fail_json was called.
Ended == pc \in {"done", "failed"}

Succeeded == pc = "done"

CommitOps == {"create_instance", "place_order"}

VerifyOps == {"verify_create_instance", "verify_order"}

CancelOps == {"cancel_instance", "cancel_hardware"}

EditOps == {"edit"}

Issued(ops) == \E i \in 1..Len(calls) : calls[i].op \in ops

Answered(ops, ret) == \E i \in 1..Len(calls) : calls[i].op \in ops /\ calls[i].ret = ret

\* Some remote call of the pass raised.
SomeCallRaised == \E i \in 1..Len(calls) : calls[i].ret \in Raises

\* The records the provider holds for the identity of the invocation.
Matching(name) ==
    IF name # None
    THEN list_instances(world, SubSeq(name, 1, 1), Tail(name))
    ELSE list_instances(world, params.hostname, params.domain)

\* The transition table as section 4.3 of the specification documents it.
DocumentedHandler ==
    [p \in { <<"Undefined", "running">>,
             <<"Running", "running">>, <<"Running", "halted">>, <<"Running", "paused">>,
             <<"Running", "destroy">>,
             <<"Halted", "running">>, <<"Halted", "halted">>, <<"Halted", "destroy">>,
             <<"Paused", "running">>, <<"Paused", "paused">>, <<"Paused", "destroy">> } |->
        CASE p = <<"Undefined", "running">> -> "create"
          [] p = <<"Running", "running">>   -> "nop"
          [] p = <<"Running", "halted">>    -> "stop"
          [] p = <<"Running", "paused">>    -> "suspend"
          [] p = <<"Halted", "running">>    -> "start"
          [] p = <<"Halted", "halted">>     -> "nop"
          [] p = <<"Paused", "running">>    -> "resume"
          [] p = <<"Paused", "paused">>     -> "nop"
          [] OTHER                          -> "destroy"]

UndefinedPairs ==
    { <<"Undefined", "halted">>, <<"Undefined", "paused">>, <<"Undefined", "destroy">>,
      <<"Halted", "paused">>, <<"Paused", "halted">> }

Pair(k) == <<items[k].state, params.state>>

----------------------------------------------------------------------------
(* Claims *)

\* C1: in a state-changing pass every handler the driver dispatched is the
\* one the documented table gives for the observed state of its resource and
\* the requested state; the k-th dispatch is for the k-th resource the query
\* reported, so each resource gets exactly one handler, and a pass that ends
\* successfully has dispatched one for every resource.
C1_RoutesToDocumentedHandler ==
    StateChanging =>
        /\ Len(handlers) <= Len(items)
        /\ \A k \in 1..Len(handlers) :
              /\ Pair(k) \in DOMAIN DocumentedHandler
              /\ handlers[k].handler = DocumentedHandler[Pair(k)]
              /\ handlers[k].id = items[k].id
              /\ handlers[k].name = items[k].name
        /\ pc \in {"exit", "done"} => Len(handlers) = Len(items)

\* A pass over a Halted and a Paused guest with requested state running has
\* ended after dispatching start and resume.
C1_Witness ==
    /\ Succeeded
    /\ params.state = "running"
    /\ Len(items) = 2
    /\ items[1].state = "Halted" /\ items[2].state = "Paused"
    /\ handlers[1].handler = "start" /\ handlers[2].handler = "resume"

\* C2: a state-changing pass whose query reported a resource in an observed
\* state for which the requested state has no cell never ends successfully,
\* and at no point of the pass (the handling of the matches before that
\* resource included) has a commit, cancel or tag-edit call been issued; when
\* the driver reaches that resource the pass ends in a failure.
C2_UndefinedPairFailsUnmutated ==
    (StateChanging /\ \E k \in 1..Len(items) : Pair(k) \in UndefinedPairs) =>
        /\ ~Issued(CommitOps \cup CancelOps \cup EditOps)
        /\ pc \notin {"exit", "done"}
        /\ Ended => outcome.status = "failed"
        /\ \A k \in 1..Len(items) :
              (Pair(k) \in UndefinedPairs /\ idx = k) =>
                  \/ pc = "loop"
                  \/ pc = "failed" /\ Len(handlers) = k - 1

\* A pass with requested state halted has handled a Running guest (stop) and
\* failed on the Paused guest that followed it.
C2_Witness ==
    /\ pc = "failed"
    /\ params.state = "halted"
    /\ Len(items) = 2
    /\ items[1].state = "Running" /\ items[2].state = "Paused"
    /\ idx = 2
    /\ Len(handlers) = 1
    /\ ~SomeCallRaised

\* C3: when a pass has ended successfully, the changed flag delivered to the
\* caller is true exactly if the pass's commit call (create_instance,
\* place_order) returned or one of its cancel calls answered true; a pass
\* that dispatched neither create nor destroy delivers changed false.
C3_ChangedIffMutated ==
    Succeeded =>
        /\ outcome.data.changed = (Answered(CommitOps, "ok") \/ Answered(CancelOps, "True"))
        /\ "changed" \in outcome.data.keys
        /\ (\A k \in 1..Len(handlers) : handlers[k].handler \notin {"create", "destroy"})
              => ~outcome.data.changed

\* A destroy pass over two resources has ended with changed true after one
\* cancel answered false and the other true.
C3_Witness ==
    /\ Succeeded
    /\ outcome.data.changed
    /\ Answered(CancelOps, "False")
    /\ Answered(CancelOps, "True")

\* C4: a pass with requested state running that follows a pass with
\* requested state running for the same identity, and whose query reports
\* a Running resource, dispatches nop for that resource, issues no verify,
\* commit, cancel or tag-edit call, and, ending successfully, delivers
\* changed false.
C4_RunningTwiceIsNoOp ==
    (/\ prevRunning
     /\ params.state = "running"
     /\ \E k \in 1..Len(items) : items[k].state = "Running") =>
        /\ \A k \in 1..Len(handlers) :
              items[k].state = "Running" => handlers[k].handler = "nop"
        /\ ~Issued(VerifyOps \cup CommitOps \cup CancelOps \cup EditOps)
        /\ Succeeded => (~outcome.data.changed /\ "changed" \in outcome.data.keys)

\* The second of two running passes has found the resource Running and ended
\* successfully after dispatching nop for it.
C4_Witness ==
    /\ prevRunning
    /\ params.state = "running"
    /\ Succeeded
    /\ Len(items) = 1
    /\ items[1].state = "Running"
    /\ handlers[1].handler = "nop"

\* The flavor of the end-to-end create scenario of section 8.
ScenarioFlavor ==
    [datacenter |-> "par01", size |-> "S1270_8GB_2X1TBSATA_NORAID", os_code |-> "UBUNTU_14_64"]

\* C5: a bare-metal pass with requested state running whose query found
\* nothing and whose flavor holds exactly datacenter, size and os_code, no
\* remote call raising, issues the create call (place_order) with location
\* and os in place of datacenter and os_code and ends successfully with
\* changed true.
C5_ScenarioCreateSucceeds ==
    (/\ kind = "hardware"
     /\ params.state = "running"
     /\ params.name # None
     /\ params.flavor = ScenarioFlavor
     /\ Len(handlers) = 1
     /\ handlers[1].handler = "create"
     /\ pc # "loop"
     /\ ~SomeCallRaised) =>
        /\ pc \in {"exit", "done"}
        /\ \E i \in 1..Len(calls) :
              /\ calls[i].op = "place_order"
              /\ {"location", "os"} \subseteq DOMAIN calls[i].spec
              /\ calls[i].spec.location = "par01"
              /\ calls[i].spec.os = "UBUNTU_14_64"
              /\ {"datacenter", "os_code"} \cap DOMAIN calls[i].spec = {}
        /\ results.changed

\* The calls the step from the current state to the next one issued.
NewCalls == SubSeq(calls', Len(calls) + 1, Len(calls'))

\* The step dispatched handler h.
Dispatched(h) ==
    /\ Len(handlers') = Len(handlers) + 1
    /\ handlers'[Len(handlers')].handler = h

\* C6, one run of the destroy handler: its first call is the cancel call for
\* the resource's id, and changed becomes true exactly if it was true or that
\* call answered true; when the handler returns, its last call is a query
\* issued after the cancel call and instances has grown by every record the
\* provider then holds for the resource's name.
C6_DestroyStep ==
    Dispatched("destroy") =>
        LET h == handlers'[Len(handlers')]
        IN  /\ Len(NewCalls) >= 1
            /\ NewCalls[1].op \in CancelOps
            /\ NewCalls[1].id = h.id
            /\ results'.changed = (results.changed \/ NewCalls[1].ret = "True")
            /\ pc' # "failed" =>
                  /\ Len(NewCalls) >= 2
                  /\ NewCalls[1].ret \in {"True", "False"}
                  /\ NewCalls[Len(NewCalls)] = Call("list_instances", 0, <<>>, "ok")
                  /\ results'.instances =
                        results.instances
                        \o Summaries(list_instances(world', SubSeq(h.name, 1, 1), Tail(h.name)))

\* C6, the pass: a destroy pass none of whose cancel calls answered true
\* and that ended successfully delivers changed false and the instances.
C6_DestroyFinal ==
    (Succeeded /\ params.state = "destroy" /\ ~Answered(CancelOps, "True")) =>
        /\ ~outcome.data.changed
        /\ "instances" \in outcome.data.keys
        /\ outcome.data.instances = results.instances

\* C6: the destroy handler sets changed only when cancel answers true and
\* in both cases re-queries after the cancel call and appends every record
\* found to instances; a destroy pass whose cancel answered false ends
\* successfully with changed false and the re-queried records as instances.
C6_DestroyRequeries == [][C6_DestroyStep]_vars /\ []C6_DestroyFinal

\* A destroy pass over two resources has ended successfully, both cancel
\* calls having answered false, with the re-queried records delivered.
C6_Witness ==
    /\ Succeeded
    /\ params.state = "destroy"
    /\ Len(handlers) = 2
    /\ Answered(CancelOps, "False")
    /\ ~Answered(CancelOps, "True")
    /\ ~outcome.data.changed
    /\ Len(outcome.data.instances) >= 2

\* C7: a list pass whose query was answered with zero records does not
\* fail; it ends with changed false, the "not found" message and an empty
\* instances list.
C7_EmptyListSucceeds ==
    (/\ params.state = "list"
     /\ Answered({"list_instances"}, "ok")
     /\ Matching(params.name) = <<>>) =>
        /\ pc \in {"exit", "done"}
        /\ Succeeded =>
              /\ outcome.status = "exit"
              /\ "changed" \in outcome.data.keys /\ ~outcome.data.changed
              /\ "msg" \in outcome.data.keys
              /\ outcome.data.msg \in {"vguest not found", "vHardware not found"}
              /\ "instances" \in outcome.data.keys
              /\ outcome.data.instances = <<>>

\* A list pass has ended successfully with the message although the
\* provider holds records, none of them matching the identity.
C7_Witness ==
    /\ Succeeded
    /\ params.state = "list"
    /\ Len(world) > 0
    /\ Matching(params.name) = <<>>
    /\ "msg" \in outcome.data.keys

\* Two of the records share their name.
SharedName(recs) ==
    \E i, j \in 1..Len(recs) :
        i < j /\ recs[i].fullyQualifiedDomainName = recs[j].fullyQualifiedDomainName

\* C8: a facts pass that failed delivers no facts mapping; a facts pass
\* none of whose remote calls raised fails if two of the matched resources
\* share their name and otherwise ends successfully with a mapping that has
\* exactly one entry per matched resource, keyed by its name.
C8_FactsOneToOne ==
    (params.state = "facts" /\ Ended) =>
        /\ pc = "failed" =>
              /\ "ansible_facts" \notin outcome.data.keys
              /\ DOMAIN outcome.data.ansible_facts = {}
        /\ (Answered({"list_instances"}, "ok") /\ ~SomeCallRaised) =>
              LET matched == Matching(params.name)
              IN  IF SharedName(matched)
                  THEN /\ pc = "failed"
                       /\ outcome.data.keys = {"failed", "msg"}
                  ELSE /\ Succeeded
                       /\ DOMAIN outcome.data.ansible_facts =
                             {matched[i].fullyQualifiedDomainName : i \in 1..Len(matched)}
                       /\ Cardinality(DOMAIN outcome.data.ansible_facts) = Len(matched)
                       /\ \A i \in 1..Len(matched) :
                             LET fact == outcome.data.ansible_facts[matched[i].fullyQualifiedDomainName]
                             IN  /\ fact.id = matched[i].id
                                 /\ fact.name = matched[i].fullyQualifiedDomainName

\* A facts pass over two resources of the same name has failed with the
\* duplicated-name message, every remote call having answered.
C8_Witness ==
    /\ pc = "failed"
    /\ params.state = "facts"
    /\ ~SomeCallRaised
    /\ Len(Matching(params.name)) = 2
    /\ outcome.data.msg \in {"duplicated vguests name", "duplicated vHardware name"}

\* C9: whatever made the pass fail, when the handlers had set changed or
\* collected instances before the failure, the failure delivered to the
\* caller carries none of the fields changed, instances and facts of those
\* results.
C9_FailureCarriesNoResults ==
    (pc = "failed" /\ (results.changed \/ Len(results.instances) > 0)) =>
        /\ outcome.status = "failed"
        /\ outcome.data.keys \cap {"changed", "instances", "ansible_facts"} = {}

\* C10 as claimed: the result of every successful pass holds exactly one of
\* instances and the facts mapping: a facts pass the mapping and no
\* instances, every other pass instances and no mapping.
C10_ExactlyOneOfInstancesFacts ==
    Succeeded =>
        IF params.state = "facts"
        THEN "ansible_facts" \in outcome.data.keys /\ "instances" \notin outcome.data.keys
        ELSE "instances" \in outcome.data.keys /\ "ansible_facts" \notin outcome.data.keys

\* C10 as amended: the result of every successful pass holds at most one of
\* instances and the facts mapping.  A pass other than facts delivers
\* instances (empty when nothing matched) and no mapping; a facts pass
\* delivers no instances, and the mapping exactly if at least one resource
\* matched: with zero matches it delivers neither, only the message.
C10_AtMostOneOfInstancesFacts ==
    Succeeded =>
        IF params.state = "facts"
        THEN /\ "instances" \notin outcome.data.keys
             /\ "ansible_facts" \in outcome.data.keys <=> Len(Matching(params.name)) > 0
             /\ "ansible_facts" \notin outcome.data.keys => "msg" \in outcome.data.keys
        ELSE /\ "instances" \in outcome.data.keys
             /\ "ansible_facts" \notin outcome.data.keys

\* A facts pass that matched nothing has ended successfully with neither
\* field: changed, state and the message only.
C10_Witness ==
    /\ Succeeded
    /\ params.state = "facts"
    /\ Matching(params.name) = <<>>
    /\ outcome.data.keys = {"changed", "state", "msg"}

\* C11: a pass with requested state running that was given no name and
\* whose query matched nothing (with or without hostname and domain filters)
\* fails in the create handler with the missing-name message: the failure
\* carries that message only, no verify, commit or tag-edit call has been
\* issued, and changed has not been set.
C11_MissingNameFailsBeforeCreate ==
    (/\ params.state = "running"
     /\ params.name = None
     /\ items = <<Placeholder(None)>>
     /\ pc # "loop") =>
        /\ pc = "failed"
        /\ Len(handlers) = 1
        /\ handlers[1].handler = "create"
        /\ outcome.status = "failed"
        /\ outcome.data.keys = {"failed", "msg"}
        /\ outcome.data.msg = "vguest name need to be defined."
        /\ ~Issued(VerifyOps \cup CommitOps \cup EditOps)
        /\ ~results.changed

\* A running pass given hostname and domain but no name has failed in
\* create, the account holding resources that the filters do not match.
C11_Witness ==
    /\ pc = "failed"
    /\ params.state = "running"
    /\ params.name = None
    /\ params.hostname # None
    /\ Len(world) > 0
    /\ items = <<Placeholder(None)>>
    /\ handlers = <<[handler |-> "create", name |-> None, id |-> 0]>>
    /\ outcome.data.msg = "vguest name need to be defined."

\* C12: in every verify and commit call of a create, the spec has hourly
\* false when the caller selected monthly billing (monthly yes, hourly left
\* to its default) and hourly true when the caller selected hourly billing
\* or neither flag, whatever hourly the flavor carried.
C12_BillingOverride ==
    \A i \in 1..Len(calls) :
        calls[i].op \in VerifyOps \cup CommitOps =>
            /\ "hourly" \in DOMAIN calls[i].spec
            /\ boolean(params.monthly) => calls[i].spec.hourly = FALSE
            /\ (~boolean(params.monthly) /\ boolean(params.hourly)) => calls[i].spec.hourly = TRUE

\* C13: when the flavor given to create holds tags, the spec of its verify
\* and commit calls holds none; once the commit call has returned and no
\* call raised, the handler has issued exactly one tag-edit call, after the
\* commit call, with those tags and the id the commit call returned; a
\* create pass with tags that ended successfully includes that call.
C13_TagsDeferredToEdit ==
    (/\ Len(handlers) = 1
     /\ handlers[1].handler = "create"
     /\ "tags" \in DOMAIN params.flavor) =>
        /\ \A i \in 1..Len(calls) :
              calls[i].op \in VerifyOps \cup CommitOps => "tags" \notin DOMAIN calls[i].spec
        /\ \A i \in 1..Len(calls) :
              (calls[i].op \in CommitOps /\ calls[i].ret = "ok" /\ ~SomeCallRaised) =>
                  /\ pc # "failed"
                  /\ Cardinality({j \in 1..Len(calls) : calls[j].op \in EditOps}) = 1
                  /\ \E j \in (i + 1)..Len(calls) :
                        /\ calls[j].op \in EditOps
                        /\ calls[j].id = calls[i].id
                        /\ calls[j].spec = params.flavor.tags
        /\ Succeeded => Issued(EditOps)

\* C14: once the commit call of a create (create_instance, place_order) has
\* returned, the outcome the pass delivers to the caller, success or failure,
\* has changed true, whatever the waiting, the re-query and the tag edit
\* that follow the commit call do.
C14_CommitImpliesChanged ==
    (Ended /\ Answered(CommitOps, "ok")) =>
        /\ "changed" \in outcome.data.keys
        /\ outcome.data.changed

\* The key is absent from the record get_fact was applied to, or holds an
\* empty list.
EmptyOrAbsent(key) == ~Has(rawInst, key) \/ rawInst[key] = <<>>

\* The record holds nothing but the required fields: no address, no VLAN,
\* no block device, no user data, no post-install URI.
MinimalRecord ==
    /\ ~Has(rawInst, "primaryBackendIpAddress")
    /\ ~Has(rawInst, "primaryIpAddress")
    /\ ~Has(rawInst, "networkManagementIpAddress")
    /\ EmptyOrAbsent("networkVlans")
    /\ EmptyOrAbsent("blockDevices")
    /\ EmptyOrAbsent("userData")
    /\ EmptyOrAbsent("postInstallScriptUri")

\* C15: get_fact applied to a record whose optional parts are all empty or
\* absent returns a fact record, and that record has none of the keys
\* address, private_vlan, public_vlan, disks, userData and post_uri.
C15_MinimalRecordOmitsOptionalKeys ==
    (pc = "return" /\ MinimalRecord) =>
        /\ factResult.exc = "none"
        /\ DOMAIN factResult.info
              \cap {"address", "private_vlan", "public_vlan", "disks", "userData", "post_uri"} = {}

\* The block devices of the record that are not swap devices, in order.
NonSwapDevices ==
    SelectSeq(rawInst.blockDevices, LAMBDA dev : \A k \in 1..Len(dev.disk.name) : dev.disk.name[k] # "SWAP")

\* C16: for a virtual guest with block devices, disks holds one entry per
\* device whose disk name does not contain SWAP, in the order of the
\* devices: the capacity for a disk in GB, 1000 times the capacity for a
\* disk in TB; local_disk is true exactly if one of those devices is local,
\* whatever the swap devices are.
C16_DisksScaledSwapExcluded ==
    (/\ pc = "return"
     /\ kind = "vguests"
     /\ factResult.exc = "none"
     /\ Has(rawInst, "blockDevices")
     /\ Len(rawInst.blockDevices) > 0) =>
        /\ {"disks", "local_disk"} \subseteq DOMAIN factResult.info
        /\ Len(factResult.info.disks) = Len(NonSwapDevices)
        /\ \A k \in 1..Len(NonSwapDevices) :
              LET disk == NonSwapDevices[k].disk
              IN  /\ disk.units = <<"GB">> => factResult.info.disks[k] = disk.capacity
                  /\ disk.units = <<"TB">> => factResult.info.disks[k] = disk.capacity * 1000
                  /\ (disk.units = <<"GB">> /\ disk.capacity = 25) => factResult.info.disks[k] = 25
                  /\ (disk.units = <<"TB">> /\ disk.capacity = 2) => factResult.info.disks[k] = 2000
        /\ factResult.info.local_disk = \E k \in 1..Len(NonSwapDevices) : NonSwapDevices[k].localDiskFlag

\* get_fact has returned disks [2000] and local_disk false for a guest with
\* a local swap device followed by a 2 TB disk that is not local.
C16_Witness ==
    /\ pc = "return"
    /\ kind = "vguests"
    /\ factResult.exc = "none"
    /\ Has(rawInst, "blockDevices")
    /\ Len(rawInst.blockDevices) = 2
    /\ Contains("SWAP", rawInst.blockDevices[1].disk.name)
    /\ rawInst.blockDevices[1].localDiskFlag
    /\ rawInst.blockDevices[2].disk = [name |-> <<"Disk">>, units |-> <<"TB">>, capacity |-> 2]
    /\ ~rawInst.blockDevices[2].localDiskFlag
    /\ factResult.info.disks = <<2000>>
    /\ ~factResult.info.local_disk

MutatingOps == VerifyOps \cup CommitOps \cup CancelOps \cup EditOps \cup {"wait_for_ready"}

\* C17: a pass whose requested operation is list, info or facts never
\* queries the resources' observed state for the transition table: it
\* dispatches the handler of that name at most once, with the requested
\* name and id 0, and exactly once when it gets to its end; it issues no
\* verify, commit, cancel, tag-edit or wait call; changed stays false and is
\* delivered false, whatever the provider holds.
C17_ReadOnlyPass ==
    params.state \in READ_ONLY =>
        /\ pc \notin {"query", "loop"}
        /\ items = <<>>
        /\ Len(handlers) <= 1
        /\ \A k \in 1..Len(handlers) :
              handlers[k] = [handler |-> params.state, name |-> params.name, id |-> 0]
        /\ pc \in {"exit", "done"} => Len(handlers) = 1
        /\ ~Issued(MutatingOps)
        /\ ~results.changed
        /\ Ended => ~outcome.data.changed
        /\ Succeeded => "changed" \in outcome.data.keys

\* An info pass has ended successfully with changed false over a Halted
\* and a Paused guest, after dispatching info once.
C17_Witness ==
    /\ Succeeded
    /\ params.state = "info"
    /\ Len(handlers) = 1
    /\ Len(Matching(params.name)) = 2
    /\ Matching(params.name)[1].powerState = "Halted"
    /\ Matching(params.name)[2].powerState = "Paused"
    /\ Len(outcome.data.instances) = 2
    /\ ~outcome.data.changed

NopLike == {"start", "stop", "suspend", "resume", "nop"}

\* C18, one run of start, stop, suspend, resume or nop: the handler issues
\* one call, the query for the name of its resource, and nothing changes at
\* the provider; when the query answers, instances grows by the records it
\* returned and no other field of the results changes; when it raises the
\* results are as they were.
C18_Step ==
    \A h \in NopLike :
        Dispatched(h) =>
            LET d == handlers'[Len(handlers')]
            IN  /\ Len(NewCalls) = 1
                /\ NewCalls[1].op = "list_instances"
                /\ world' = world
                /\ IF NewCalls[1].ret = "ok"
                   THEN /\ pc' # "failed"
                        /\ results' =
                              [results EXCEPT !.instances =
                                  @ \o Summaries(list_instances(world, SubSeq(d.name, 1, 1),
                                                                Tail(d.name)))]
                   ELSE /\ pc' = "failed"
                        /\ results' = results

\* C18: start, stop, suspend, resume and nop have the same effect: only a
\* query for the resource's name, whose records are appended to instances;
\* no power-control or other mutating call; changed and every other field of
\* the results left as they were.
C18_PowerHandlersOnlyRequery == [][C18_Step]_vars

\* A pass with requested state halted over a Running and a Halted guest of
\* the same name has ended successfully after stop and nop, with changed
\* false and the two records of each re-query in instances.
C18_Witness ==
    /\ Succeeded
    /\ params.state = "halted"
    /\ Len(handlers) = 2
    /\ handlers[1].handler = "stop"
    /\ handlers[2].handler = "nop"
    /\ Len(calls) = 4
    /\ Len(outcome.data.instances) = 4
    /\ ~outcome.data.changed

\* C19: in a state-changing pass whose query matched at least one
\* resource, the list the driver iterates over is the answer of the query
\* in the query's order; the k-th handler it dispatches is the one the table
\* holds for the observed state of the k-th match and the requested state,
\* called with that match's name and id; no match is handled twice, and a
\* pass that ended successfully has dispatched as many handlers as the query
\* returned matches.
C19_OneHandlerPerMatchInOrder ==
    (StateChanging /\ Len(items) >= 1 /\ items[1].id # 0) =>
        /\ (pc = "loop" /\ idx = 1) => items = Summaries(Matching(params.name))
        /\ Len(handlers) <= Len(items)
        /\ pc = "loop" => Len(handlers) = idx - 1
        /\ \A k \in 1..Len(handlers) :
              handlers[k] = [handler |-> FINITE_STATE[items[k].state][params.state],
                             name |-> items[k].name, id |-> items[k].id]
        /\ \A j, k \in 1..Len(handlers) : j < k => handlers[j].id # handlers[k].id
        /\ Succeeded => Len(handlers) = Len(items)

\* A destroy pass has ended successfully over two matches that the query
\* returned with id 2 before id 1, its handlers called with id 2, then id 1.
C19_Witness ==
    /\ Succeeded
    /\ params.state = "destroy"
    /\ Len(items) = 2
    /\ items[1].id = 2 /\ items[2].id = 1
    /\ Len(handlers) = 2
    /\ handlers[1].id = 2 /\ handlers[2].id = 1

\* The ids of the matches the driver has got to: the first idx of items.
ReachedIds == {items[j].id : j \in 1..(IF idx <= Len(items) THEN idx ELSE Len(items))}

\* C20, the state of a pass over several matches: a call that raised has
\* ended the pass in failure; when the pass has failed at the k-th match, no
\* handler was dispatched for a later match, no call carries the id of a
\* later match, the queries are the initial one and at most one per
\* dispatched handler, and nothing was issued to undo the cancel calls that
\* were answered: no verify or commit call, and changed as the cancel calls
\* left it.
C20_Failed ==
    (StateChanging /\ Len(items) >= 2) =>
        /\ SomeCallRaised => pc = "failed"
        /\ pc = "failed" =>
              /\ outcome.status = "failed"
              /\ idx <= Len(items)
              /\ Len(handlers) \in {idx - 1, idx}
              /\ \A i \in 1..Len(calls) : calls[i].id # 0 => calls[i].id \in ReachedIds
              /\ Cardinality({i \in 1..Len(calls) : calls[i].op = "list_instances"})
                    <= 1 + Len(handlers)
              /\ ~Issued(VerifyOps \cup CommitOps \cup EditOps)
              /\ results.changed = Answered(CancelOps, "True")

\* C20, the step after a failure: the pass does nothing more; the next step
\* is the next invocation of the module, which finds the provider as the
\* failed pass left it.
C20_Step ==
    pc = "failed" => (pc' = "begin" /\ world' = world)

\* C20: when the handler for the k-th match of a pass over several matches
\* fails, the pass ends in failure at once, without any call for the matches
\* after the k-th and without undoing what the calls before the failure did.
C20_FailureStopsThePass == [][C20_Step]_vars /\ []C20_Failed

\* A destroy pass over two matches has failed at the first one, after its
\* cancel call was answered true and the provider dropped the record: the
\* second match is still there and no call was issued for it.
C20_Witness ==
    /\ pc = "failed"
    /\ params.state = "destroy"
    /\ Len(items) = 2
    /\ idx = 1
    /\ Len(handlers) = 1
    /\ Answered(CancelOps, "True")
    /\ calls[Len(calls)].ret \in Raises
    /\ results.changed
    /\ items[1].id \notin WorldIds(world)
    /\ items[2].id \in WorldIds(world)
    /\ \A i \in 1..Len(calls) : calls[i].id # items[2].id

\* C21: in a pass that dispatched create, a commit call (create_instance,
\* place_order) directly follows a verify call that returned, with the same
\* spec; a verify call that raised is the last call of the pass, which has
\* failed without a commit call; a wait call directly follows the commit
\* call that returned, for the id it returned; and when create has returned,
\* the last call is a query issued after the commit call and instances holds
\* exactly the records the provider then has for the name.
C21_CreateCallOrder ==
    (Len(handlers) >= 1 /\ handlers[1].handler = "create") =>
        /\ Cardinality({i \in 1..Len(calls) : calls[i].op \in VerifyOps}) <= 1
        /\ Cardinality({i \in 1..Len(calls) : calls[i].op \in CommitOps}) <= 1
        /\ \A i \in 1..Len(calls) :
              /\ calls[i].op \in CommitOps =>
                    /\ i > 1
                    /\ calls[i - 1].op \in VerifyOps
                    /\ calls[i - 1].ret = "ok"
                    /\ calls[i - 1].spec = calls[i].spec
              /\ (calls[i].op \in VerifyOps /\ calls[i].ret \in Raises) =>
                    /\ i = Len(calls)
                    /\ pc = "failed"
              /\ calls[i].op = "wait_for_ready" =>
                    /\ calls[i - 1].op \in CommitOps
                    /\ calls[i - 1].ret = "ok"
                    /\ calls[i - 1].id = calls[i].id
        /\ pc \in {"exit", "done"} =>
              /\ \E i \in 1..(Len(calls) - 1) : calls[i].op \in CommitOps /\ calls[i].ret = "ok"
              /\ calls[Len(calls)] = Call("list_instances", 0, <<>>, "ok")
              /\ results.instances = Summaries(Matching(handlers[1].name))
        /\ Succeeded => outcome.data.instances = Summaries(Matching(handlers[1].name))

\* A pass of sl_vguests has created a guest and ended successfully: verify,
\* commit, wait and the query, in that order, and the new record reported.
C21_Witness ==
    /\ Succeeded
    /\ kind = "vguests"
    /\ Len(calls) = 6
    /\ calls[3].op = "verify_create_instance"
    /\ calls[4].op = "create_instance"
    /\ calls[5].op = "wait_for_ready"
    /\ calls[6].op = "list_instances"
    /\ Len(outcome.data.instances) = 1
    /\ outcome.data.instances[1].id = calls[4].id

\* C22: in a bare-metal pass every resource the query matched is held with
\* state Running and status Active, so the table is only consulted with
\* Undefined (the placeholder) and Running; start and resume, the handlers
\* of the Halted and Paused rows for running, are never dispatched, and the
\* instances a state-changing pass collects are all Running and Active.
C22_BareMetalAlwaysRunning ==
    kind = "hardware" =>
        /\ \A k \in 1..Len(items) :
              IF items[k].id = 0
              THEN items[k].state = "Undefined"
              ELSE items[k].state = "Running" /\ items[k].status = "Active"
        /\ \A k \in 1..Len(handlers) :
              /\ handlers[k].handler \notin {"start", "resume"}
              /\ StateChanging =>
                    handlers[k].handler = FINITE_STATE[IF handlers[k].id = 0
                                                       THEN "Undefined" ELSE "Running"][params.state]
        /\ StateChanging =>
              \A k \in 1..Len(results.instances) :
                  /\ results.instances[k].state = "Running"
                  /\ results.instances[k].status = "Active"

\* A bare-metal pass with requested state halted has ended successfully
\* after dispatching stop for the server the query matched.
C22_Witness ==
    /\ Succeeded
    /\ kind = "hardware"
    /\ params.state = "halted"
    /\ Len(items) = 1
    /\ items[1].state = "Running"
    /\ handlers[1].handler = "stop"
    /\ Len(outcome.data.instances) = 1

\* C23: the list a state-changing pass iterates over is the placeholder
\* (state Undefined, id 0, the requested name), alone, exactly if the
\* initial query matched nothing; otherwise it holds no entry with state
\* Undefined or id 0.  create is dispatched at most once in a pass, only
\* for the placeholder, and a pass whose query matched a resource issues
\* no verify and no commit call.
C23_PlaceholderIffNoMatch ==
    (StateChanging /\ Len(items) >= 1) =>
        /\ (pc = "loop" /\ idx = 1) =>
              (items = <<Placeholder(params.name)>> <=> Matching(params.name) = <<>>)
        /\ \/ items = <<Placeholder(params.name)>>
           \/ \A k \in 1..Len(items) : items[k].id # 0 /\ items[k].state # "Undefined"
        /\ Cardinality({k \in 1..Len(handlers) : handlers[k].handler = "create"}) <= 1
        /\ \A k \in 1..Len(handlers) :
              handlers[k].handler = "create" => items = <<Placeholder(params.name)>>
        /\ items[1].id # 0 => ~Issued(VerifyOps \cup CommitOps)

\* A running pass for a name the account does not hold, although it holds
\* another resource, has dispatched create once for the placeholder, and
\* ended successfully with the order placed.
C23_Witness ==
    /\ Succeeded
    /\ params.state = "running"
    /\ params.name = <<"a", "x">>
    /\ \E i \in 1..Len(world) : world[i].fullyQualifiedDomainName = <<"b", "x">>
    /\ items = <<Placeholder(params.name)>>
    /\ Len(handlers) = 1
    /\ handlers[1].handler = "create"
    /\ Answered(CommitOps, "ok")

\* C24: when another actor has created, destroyed or changed the state of
\* a resource of the pass's identity between the initial query and the
\* handler, the pass does not end successfully: it ends in a failure
\* delivered to the caller; and when the other actor created the name the
\* pass found absent, the pass's own commit call does not return.
C24_StaleObservationFails ==
    interfered =>
        /\ pc \notin {"exit", "done"}
        /\ Ended => outcome.status = "failed"
        /\ items = <<Placeholder(params.name)>> => ~Answered(CommitOps, "ok")

\* The positions of the cancel calls in the calls log.
CancelCalls == {i \in 1..Len(calls) : calls[i].op \in CancelOps}

\* C25: every cancel call of a pass carries the id of a resource that the
\* pass's initial query returned and for which the destroy handler was
\* dispatched: never id 0, never in a pass whose query was empty, and no two
\* cancel calls carry the same id.
C25_CancelOnlyMatchedIds ==
    \A i \in CancelCalls :
        /\ calls[i].id # 0
        /\ Len(items) >= 1
        /\ items[1].id # 0
        /\ \E k \in 1..Len(handlers) :
              /\ handlers[k].handler = "destroy"
              /\ items[k].id = calls[i].id
        /\ \A j \in CancelCalls : j # i => calls[j].id # calls[i].id

\* A bare-metal destroy pass over two matched servers has ended
\* successfully with one cancel call for each of the two ids.
C25_Witness ==
    /\ Succeeded
    /\ kind = "hardware"
    /\ params.state = "destroy"
    /\ Len(items) = 2
    /\ Cardinality(CancelCalls) = 2
    /\ {calls[i].id : i \in CancelCalls} = {items[1].id, items[2].id}

\* C26: the instances a successful state-changing pass delivers hold at
\* most one entry per resource id, also when matched resources share their
\* name or a handler's re-query returns several records.
C26_InstancesUniquePerId ==
    (Succeeded /\ StateChanging) =>
        \A j, k \in 1..Len(outcome.data.instances) :
            j < k => outcome.data.instances[j].id # outcome.data.instances[k].id

====
